---- MODULE Spec2Model ----
(***************************************************************************)
(* The root controller of the map-style editor (src/components/App.jsx):   *)
(* the React component App, its revision store, its host (the props) and   *)
(* the asynchronous requests it starts.                                    *)
(*                                                                         *)
(* One TLA+ step is one run of a handler to completion, together with the  *)
(* React update it causes (getDerivedStateFromProps included), or one      *)
(* completion of an asynchronous request.                                  *)
(***************************************************************************)
EXTENDS Integers, Sequences, FiniteSets, TLC

VARIABLES
  props,          \* this.props: mapStyle, onSnapshotSave, transformRequest
  state,          \* this.state
  revisions,      \* this.revisionStore.revisions
  currentIdx,     \* this.revisionStore.currentIdx (0-based, -1 when empty)
  fetches,        \* vector-source metadata fetches in flight, per source key
  fetchCount,     \* number of metadata fetches issued so far, per source key
  glyphLoads,     \* glyph metadata downloads in flight (resolved URLs)
  spriteLoads,    \* sprite metadata downloads in flight (URLs)
  last,           \* what the last step was and what it did towards the outside
  steps           \* the number of steps taken

vars == <<props, state, revisions, currentIdx, fetches, fetchCount,
          glyphLoads, spriteLoads, last, steps>>

-----------------------------------------------------------------------------
(* Bounds of the model *)

MaxRevisions == 2          \* accepted edits explored
MaxFetchesPerKey == 2      \* fetches per source key explored
MaxSteps == 4              \* handler runs and completions explored

-----------------------------------------------------------------------------
(* Values *)

Undef == "undefined"                      \* the JavaScript value undefined
Undefined == [undefined |-> TRUE]         \* undefined where a style is expected
NotFound == -1                            \* indexOfLayer: no layer has the id

SourceKeys == {"a", "b"}
NoSources == [k \in {} |-> [type |-> "raster"]]

Layer(id, paint) == [id |-> id, paint |-> paint]

\* style.emptyStyle, the default of the mapStyle prop
emptyStyle ==
  [version |-> 8, token |-> Undef, glyphs |-> Undef, sprite |-> Undef,
   sources |-> NoSources, layers |-> <<>>]

StyleA ==
  [version |-> 8, token |-> Undef, glyphs |-> "g1", sprite |-> "s1",
   sources |-> [k \in {"a"} |-> [type |-> "vector", url |-> "ua"]],
   layers |-> <<Layer("l1", 0), Layer("l2", 0)>>]

\* source a changes its type and url, source b is new
StyleB ==
  [version |-> 8, token |-> "tokB", glyphs |-> "g2{key}", sprite |-> "s2",
   sources |-> [k \in {"a", "b"} |->
                  IF k = "b" THEN [type |-> "vector", url |-> "ub"]
                             ELSE [type |-> "raster", url |-> "ua2"]],
   layers |-> <<Layer("l1", 1)>>]

\* rejected by the validator: wrong version
StyleBadVersion ==
  [version |-> 7, token |-> Undef, glyphs |-> "g2{key}", sprite |-> "s2",
   sources |-> [k \in {"a"} |-> [type |-> "vector", url |-> "ua"]],
   layers |-> <<Layer("l1", 0)>>]

\* a document of the host's, never validated: wrong version; its vector
\* source has no url
StyleHost ==
  [version |-> 7, token |-> Undef, glyphs |-> "g1", sprite |-> "s1",
   sources |-> [k \in {"b"} |-> [type |-> "vector"]],
   layers |-> <<Layer("l2", 1)>>]

\* the documents the panels hand to onStyleChanged
StyleInputs == {StyleA, StyleB, StyleBadVersion}

\* the documents the host constructs the component with
InitialStyles == {StyleA}

\* the documents the host supplies later
HostStyles == {StyleHost}

\* the hosts: the callbacks they supply, "default" where they supply none
Hosts ==
  {[onSnapshotSave |-> "feedback", transformRequest |-> "host"],
   [onSnapshotSave |-> "default", transformRequest |-> "default"]}

LayerIdInputs == {"l2", "nope"}

-----------------------------------------------------------------------------
(* styleSpec.validate(newStyle, styleSpec.latest): the list of errors *)

HasDuplicateLayerIds(layers) ==
  \E i, j \in 1..Len(layers) : i < j /\ layers[i].id = layers[j].id

validate(s) ==
  (IF s.version # 8
     THEN <<[message |-> "version: expected 8"]>> ELSE <<>>)
  \o (IF HasDuplicateLayerIds(s.layers)
     THEN <<[message |-> "layers: duplicate layer id"]>> ELSE <<>>)

\* errors.map(err => err.message)
ErrorMessages(errors) == [i \in 1..Len(errors) |-> errors[i].message]

-----------------------------------------------------------------------------
(* The schema object, state.spec *)

\* styleSpec.latest
latestSpec ==
  [root |-> [version |-> [values |-> <<"8">>],
             glyphs  |-> [type |-> "string"],
             sprite  |-> [type |-> "string"]],
   layer |-> "layer"]

updateRootSpecOfLatest(spec, fieldName, newValues) ==
  [latestSpec EXCEPT !.root =
     [f \in DOMAIN latestSpec.root |->
        IF f = fieldName
          THEN [k \in (DOMAIN latestSpec.root[f]) \cup {"values"} |->
                  IF k = "values" THEN newValues ELSE latestSpec.root[f][k]]
          ELSE latestSpec.root[f]]]

updateRootSpec(spec, fieldName, newValues) ==
  [spec EXCEPT !.root =
     [f \in DOMAIN spec.root |->
        IF f = fieldName
          THEN [k \in (DOMAIN spec.root[f]) \cup {"values"} |->
                  IF k = "values" THEN newValues ELSE spec.root[f][k]]
          ELSE spec.root[f]]]

-----------------------------------------------------------------------------
(* The revision store, libs/revisions: a linear stack of snapshots with a   *)
(* position in it.                                                          *)

\* RevisionStore.current at position idx: undefined when there is none
current(revs, idx) ==
  IF idx >= 0 /\ idx < Len(revs) THEN revs[idx + 1] ELSE Undefined

\* RevisionStore.addRevision: the store after it, <<revisions, currentIdx>>
addRevision(revs, idx, revision) == <<Append(revs, revision), idx + 1>>

\* RevisionStore.undo: the position after it
undo(revs, idx) == IF idx > 0 THEN idx - 1 ELSE idx

\* RevisionStore.redo: the position after it
redo(revs, idx) == IF idx < Len(revs) - 1 THEN idx + 1 ELSE idx

-----------------------------------------------------------------------------
(* libs/style and libs/diffmessage *)

RECURSIVE indexFrom(_, _, _)
indexFrom(layers, layerId, i) ==
  IF i > Len(layers) THEN NotFound
  ELSE IF layers[i].id = layerId THEN i - 1
  ELSE indexFrom(layers, layerId, i + 1)

\* style.indexOfLayer: the 0-based position of the first layer with the id
indexOfLayer(layers, layerId) == indexFrom(layers, layerId, 1)

\* the change summary of undoMessages / redoMessages
diffMessages(before, after) ==
  IF after = Undefined \/ before = Undefined \/ before.version # after.version
    THEN <<"setStyle">>
    ELSE (IF before.glyphs # after.glyphs THEN <<"setGlyphs">> ELSE <<>>)
      \o (IF before.sprite # after.sprite THEN <<"setSprite">> ELSE <<>>)
      \o (IF before.sources # after.sources THEN <<"setSources">> ELSE <<>>)
      \o (IF before.layers # after.layers THEN <<"setLayers">> ELSE <<>>)

undoMessages(before, after) == diffMessages(before, after)
redoMessages(before, after) == diffMessages(before, after)

-----------------------------------------------------------------------------
(* React: props, setState and the render that follows every update *)

\* static defaultProps: an undefined mapStyle prop is replaced by emptyStyle
withDefaultProps(mapStyle) ==
  IF mapStyle = Undefined THEN emptyStyle ELSE mapStyle

derivedStateKept(pr, prevState) == prevState

\* static getDerivedStateFromProps({mapStyle}, prevState)
getDerivedStateFromProps(pr, prevState) ==
  [prevState EXCEPT !.mapStyle = pr.mapStyle]

\* this.setState(partial): the partial state merged into the state
setState(st, partial) ==
  [f \in DOMAIN st |-> IF f \in DOMAIN partial THEN partial[f] ELSE st[f]]

\* the state after an update: setState, then getDerivedStateFromProps
updated(pr, st, partial) == getDerivedStateFromProps(pr, setState(st, partial))

\* this.props.onSnapshotSave(snapshotStyle): the props afterwards. The default
\* callback does nothing; a host that keeps the style stores the snapshot and
\* hands it back as the mapStyle prop.
saveStyle(pr, snapshotStyle) ==
  IF pr.onSnapshotSave = "feedback"
    THEN [pr EXCEPT !.mapStyle = withDefaultProps(snapshotStyle)]
    ELSE pr

-----------------------------------------------------------------------------
(* Glyph and sprite metadata *)

\* tokens.openmaptiles
DefaultToken == "tokDefault"

\* the glyph URL templates that contain the placeholder {key}
KeyTemplates == {"g2{key}"}

\* updateFonts: the URL it downloads, <<template, token put in place of {key}>>
glyphUrl(mapStyle, urlTemplate) ==
  LET accessToken == IF mapStyle.token # Undef THEN mapStyle.token
                                               ELSE DefaultToken
  IN IF urlTemplate # Undef /\ urlTemplate \in KeyTemplates
       THEN <<urlTemplate, accessToken>>
       ELSE <<urlTemplate, "">>

\* what downloadGlyphsMetadata / downloadSpriteMetadata hand to the callback
fontsAt(url) == [fonts |-> url]
iconsAt(url) == [icons |-> url]

\* onStyleChanged, lines 113-118: the downloads it starts
fontsStarted(mapStyle, newStyle) ==
  IF newStyle.glyphs # mapStyle.glyphs
    THEN {glyphUrl(mapStyle, newStyle.glyphs)} ELSE {}

iconsStarted(mapStyle, newStyle) ==
  IF newStyle.sprite # mapStyle.sprite THEN {newStyle.sprite} ELSE {}

-----------------------------------------------------------------------------
(* fetchSources *)

\* the source keys fetchSources adds to the cache
newSourceKeys(st) ==
  {k \in DOMAIN st.mapStyle.sources : k \notin DOMAIN st.sources}

keysToFetchAgain(st) ==
  {k \in DOMAIN st.mapStyle.sources :
     /\ st.mapStyle.sources[k].type = "vector"
     /\ "url" \in DOMAIN st.mapStyle.sources[k]}

\* the keys it issues a metadata fetch for
keysToFetch(st) ==
  {k \in newSourceKeys(st) :
     /\ k \notin DOMAIN st.sources
     /\ st.mapStyle.sources[k].type = "vector"
     /\ "url" \in DOMAIN st.mapStyle.sources[k]}

\* this.props.transformRequest(url): the default returns undefined
transformRequest(pr, url) ==
  IF pr.transformRequest = "host" THEN [url |-> url] ELSE Undefined

fetchSourcesRefreshed(pr, st) ==
  LET sourceList ==
        [k \in DOMAIN st.mapStyle.sources |->
           IF k \in DOMAIN st.sources
                /\ st.sources[k].type = st.mapStyle.sources[k].type
             THEN st.sources[k]
             ELSE [type |-> st.mapStyle.sources[k].type, layers |-> <<>>]]
      threw == \E k \in keysToFetch(st) :
                 transformRequest(pr, st.mapStyle.sources[k].url) = Undefined
  IN IF threw
       THEN [threw |-> TRUE, issued |-> {}, partial |-> [none |-> 0]]
       ELSE [threw |-> FALSE, issued |-> keysToFetch(st),
             partial |-> IF st.sources # sourceList
                           THEN [sources |-> sourceList]
                           ELSE [none |-> 0]]

\* fetchSources run on state st: whether it threw (req.url of an undefined
\* req), the fetches issued and the partial state it sets
fetchSources(pr, st) ==
  LET sourceList ==
        [k \in (DOMAIN st.sources) \cup newSourceKeys(st) |->
           IF k \in DOMAIN st.sources
             THEN st.sources[k]
             ELSE [type |-> st.mapStyle.sources[k].type, layers |-> <<>>]]
      threw == \E k \in keysToFetch(st) :
                 transformRequest(pr, st.mapStyle.sources[k].url) = Undefined
  IN IF threw
       THEN [threw |-> TRUE, issued |-> {}, partial |-> [none |-> 0]]
       ELSE [threw |-> FALSE, issued |-> keysToFetch(st),
             partial |-> IF st.sources # sourceList
                           THEN [sources |-> sourceList]
                           ELSE [none |-> 0]]

-----------------------------------------------------------------------------
(* What a step did towards the outside *)

Step(op, arg, save, accepted, saved, issued, fonts, icons, raised) ==
  [op |-> op,                 \* the handler or completion that ran
   afterUndo |-> last.op = "onUndo",   \* the step before it was an onUndo
   arg |-> arg,               \* its argument
   save |-> save,             \* onStyleChanged: its second argument
   accepted |-> accepted,     \* onStyleChanged: validation returned no error
   heldBefore |-> state.mapStyle,
   idxBefore |-> currentIdx,
   saved |-> saved,           \* the snapshots passed to onSnapshotSave, in order
   issued |-> issued,         \* the source keys a metadata fetch was issued for
   fonts |-> fonts,           \* the glyph metadata downloads started
   icons |-> icons,           \* the sprite metadata downloads started
   raised |-> raised]         \* an error left the handler uncaught

Tick == steps < MaxSteps /\ steps' = steps + 1

Issue(keys) ==
  /\ \A k \in keys : fetchCount[k] < MaxFetchesPerKey
  /\ fetches' = [k \in SourceKeys |-> fetches[k] + (IF k \in keys THEN 1 ELSE 0)]
  /\ fetchCount' =
       [k \in SourceKeys |-> fetchCount[k] + (IF k \in keys THEN 1 ELSE 0)]

-----------------------------------------------------------------------------
(* constructor: the host mounts the component *)

Init ==
  /\ \E s \in InitialStyles, host \in Hosts :
       props = [mapStyle |-> withDefaultProps(s),
                onSnapshotSave |-> host.onSnapshotSave,
                transformRequest |-> host.transformRequest]
  /\ state = getDerivedStateFromProps(props,
       [errors |-> <<>>, infos |-> <<>>, mapStyle |-> props.mapStyle,
        selectedLayerIndex |-> 0, sources |-> NoSources,
        inspectModeEnabled |-> FALSE, spec |-> latestSpec])
  /\ revisions = <<>>
  /\ currentIdx = -1
  /\ fetches = [k \in SourceKeys |-> 0]
  /\ fetchCount = [k \in SourceKeys |-> 0]
  /\ glyphLoads = {}
  /\ spriteLoads = {}
  /\ steps = 0
  /\ last = [op |-> "constructor", afterUndo |-> FALSE, arg |-> props.mapStyle, save |-> FALSE,
             accepted |-> FALSE,
             heldBefore |-> props.mapStyle, idxBefore |-> -1, saved |-> <<>>,
             issued |-> {}, fonts |-> {}, icons |-> {}, raised |-> FALSE]

-----------------------------------------------------------------------------
(* onStyleChanged(newStyle, save). batched: the call comes from a React     *)
(* event handler, so the state updates are applied when the handler ends;   *)
(* otherwise each setState is applied at once.                              *)

\* line 120: the revision store after the call, <<revisions, currentIdx>>
styleRevisionsUnguarded(revs, idx, newStyle, errors) ==
  addRevision(revs, idx, newStyle)

styleRevisions(revs, idx, newStyle, errors) ==
  IF Len(errors) = 0 THEN addRevision(revs, idx, newStyle) ELSE <<revs, idx>>

styleSnapshotsUnguarded(newStyle, save, errors) ==
  IF save THEN <<newStyle>> ELSE <<>>

styleSnapshotsAlways(newStyle, save, errors) ==
  IF Len(errors) = 0 THEN <<newStyle>> ELSE <<>>

\* line 121: the snapshots the call passes to saveStyle
styleSnapshots(newStyle, save, errors) ==
  IF Len(errors) = 0 /\ save THEN <<newStyle>> ELSE <<>>

\* lines 122-129: the partial state the call sets
stylePartial(newStyle, errors) ==
  IF Len(errors) = 0 THEN [mapStyle |-> newStyle, errors |-> <<>>]
                     ELSE [errors |-> ErrorMessages(errors)]

\* the props after saveStyle on each of the snapshots
saved(pr, snapshots) ==
  IF snapshots = <<>> THEN pr ELSE saveStyle(pr, snapshots[1])

styleChanged(newStyle, save, batched) ==
  \E errors \in {validate(newStyle)} :
  \E snapshots \in {styleSnapshots(newStyle, save, errors)} :
  \E pr \in {saved(props, snapshots)} :
  \E partial \in {stylePartial(newStyle, errors)} :
  \E fs \in {fetchSources(pr, IF batched THEN state
                                         ELSE updated(pr, state, partial))} :
  LET ok == Len(errors) = 0
      fonts == IF ok THEN fontsStarted(state.mapStyle, newStyle) ELSE {}
      icons == IF ok THEN iconsStarted(state.mapStyle, newStyle) ELSE {}
      store == styleRevisions(revisions, currentIdx, newStyle, errors)
  IN /\ Len(store[1]) <= MaxRevisions
     /\ Issue(fs.issued)
     /\ props' = pr
     /\ state' = updated(pr, setState(state, partial), fs.partial)
     /\ revisions' = store[1]
     /\ currentIdx' = store[2]
     /\ glyphLoads' = glyphLoads \cup fonts
     /\ spriteLoads' = spriteLoads \cup icons
     /\ Tick
     /\ last' = Step("onStyleChanged", newStyle, save, ok, snapshots,
                     fs.issued, fonts, icons, fs.threw)

\* the toolbar: onStyleChanged / onStyleOpen
onStyleChanged ==
  \E newStyle \in StyleInputs, save \in BOOLEAN, batched \in BOOLEAN :
    styleChanged(newStyle, save, batched)

\* the lists the layer list hands to onLayersChange: the held list without its
\* last layer
LayersInputs(layers) ==
  {SubSeq(layers, 1, Len(layers) - 1) : x \in {y \in {1} : Len(layers) > 0}}

\* lines 156-159: {...this.state.mapStyle, layers: changedLayers}
changedStyle(mapStyle, changedLayers) ==
  [mapStyle EXCEPT !.layers = changedLayers]

\* onLayersChange(changedLayers): onStyleChanged(changedStyle), save defaulted
layersChange(changedLayers, batched) ==
  styleChanged(changedStyle(state.mapStyle, changedLayers), TRUE, batched)

onLayersChange ==
  \E changedLayers \in LayersInputs(state.mapStyle.layers), batched \in BOOLEAN :
    layersChange(changedLayers, batched)

-----------------------------------------------------------------------------
(* onLayerChanged, onLayerIdChange *)

\* the layers the layer editor hands to onLayerChanged: a layer l2, which
\* some of the styles have and others do not
LayerInputs == {Layer("l2", 1)}

\* the <<oldId, newId>> the layer editor hands to onLayerIdChange: l2, which
\* some of the styles do not have, gets the id of another layer
LayerIdChanges == {<<"l2", "l1">>}

assignAppended(layers, idx, value) ==
  IF idx >= 0 /\ idx < Len(layers)
    THEN [layers EXCEPT ![idx + 1] = value]
    ELSE Append(layers, value)

\* changedLayers[idx] = value: the elements of the array afterwards. With
\* idx = -1 the assignment sets the property "-1" of the array object, which
\* is no element: the length and the elements stay as they are.
assign(layers, idx, value) ==
  IF idx >= 0 /\ idx < Len(layers)
    THEN [layers EXCEPT ![idx + 1] = value]
    ELSE layers

\* lines 176-178: the layer list onLayerChanged hands to onLayersChange
layerChangedLayers(mapStyle, layer) ==
  LET changedLayers == mapStyle.layers
      idx == indexOfLayer(changedLayers, layer.id)
  IN assign(changedLayers, idx, layer)

\* lines 164-170: the layer list onLayerIdChange hands to onLayersChange;
\* {...changedLayers[idx], id: newId} is {id: newId} when there is no such
\* layer
layerIdChangedLayers(mapStyle, oldId, newId) ==
  LET changedLayers == mapStyle.layers
      idx == indexOfLayer(changedLayers, oldId)
  IN assign(changedLayers, idx,
            IF idx >= 0 /\ idx < Len(changedLayers)
              THEN [changedLayers[idx + 1] EXCEPT !.id = newId]
              ELSE [id |-> newId])

layerChanged(layer, batched) ==
  layersChange(layerChangedLayers(state.mapStyle, layer), batched)

\* the layer editor calls it from a React event handler: batched
onLayerChanged ==
  \E layer \in LayerInputs : layerChanged(layer, TRUE)

layerIdChange(oldId, newId, batched) ==
  layersChange(layerIdChangedLayers(state.mapStyle, oldId, newId), batched)

onLayerIdChange ==
  \E ids \in LayerIdChanges : layerIdChange(ids[1], ids[2], TRUE)

-----------------------------------------------------------------------------
(* onUndo, onRedo *)

\* lines 138 and 148: the snapshots onUndo and onRedo pass to saveStyle
undoSnapshots(activeStyle) == <<activeStyle>>
redoSnapshotsNone(activeStyle) == <<>>
redoSnapshots(activeStyle) == <<activeStyle>>

onUndo ==
  LET idx == undo(revisions, currentIdx)
      activeStyle == current(revisions, idx)
      messages == undoMessages(state.mapStyle, activeStyle)
      snapshots == undoSnapshots(activeStyle)
      pr == saved(props, snapshots)
  IN /\ currentIdx' = idx
     /\ props' = pr
     /\ state' = updated(pr, state, [mapStyle |-> activeStyle, infos |-> messages])
     /\ Tick
     /\ last' = Step("onUndo", activeStyle, FALSE, FALSE, snapshots, {}, {}, {}, FALSE)
     /\ UNCHANGED <<revisions, fetches, fetchCount, glyphLoads, spriteLoads>>

onRedo ==
  LET idx == redo(revisions, currentIdx)
      activeStyle == current(revisions, idx)
      messages == redoMessages(state.mapStyle, activeStyle)
      snapshots == redoSnapshots(activeStyle)
      pr == saved(props, snapshots)
  IN /\ currentIdx' = idx
     /\ props' = pr
     /\ state' = updated(pr, state, [mapStyle |-> activeStyle, infos |-> messages])
     /\ Tick
     /\ last' = Step("onRedo", activeStyle, FALSE, FALSE, snapshots, {}, {}, {}, FALSE)
     /\ UNCHANGED <<revisions, fetches, fetchCount, glyphLoads, spriteLoads>>

-----------------------------------------------------------------------------
(* onLayerSelect, changeInspectMode, the map's data-change event *)

onLayerSelect ==
  \E layerId \in LayerIdInputs :
    LET idx == indexOfLayer(state.mapStyle.layers, layerId)
    IN /\ state' = updated(props, state, [selectedLayerIndex |-> idx])
       /\ Tick
       /\ last' = Step("onLayerSelect", layerId, FALSE, FALSE, <<>>, {}, {}, {}, FALSE)
       /\ UNCHANGED <<props, revisions, currentIdx, fetches, fetchCount,
                      glyphLoads, spriteLoads>>

changeInspectMode ==
  /\ state' = updated(props, state,
                      [inspectModeEnabled |-> ~state.inspectModeEnabled])
  /\ Tick
  /\ last' = Step("changeInspectMode", Undef, FALSE, FALSE, <<>>, {}, {}, {}, FALSE)
  /\ UNCHANGED <<props, revisions, currentIdx, fetches, fetchCount,
                 glyphLoads, spriteLoads>>

\* mapRenderer's onDataChange: fetchSources on the current state
dataChange ==
  LET fs == fetchSources(props, state)
  IN /\ Issue(fs.issued)
     /\ state' = updated(props, state, fs.partial)
     /\ last' = Step("onDataChange", Undef, FALSE, FALSE, <<>>, fs.issued, {}, {}, fs.threw)
     /\ UNCHANGED <<props, revisions, currentIdx, glyphLoads, spriteLoads>>

onDataChange == dataChange /\ Tick

\* the map reports data changes also after the steps explored
onDataChangeLater == steps = MaxSteps /\ dataChange /\ UNCHANGED steps

-----------------------------------------------------------------------------
(* Completions of the requests in flight *)

VectorLayerLists == {<<[id |-> "v1"], [id |-> "v2"]>>}

\* what a metadata fetch can end with: a rejected request or an unparseable
\* body, a JSON document without vector_layers, or one with the list
Responses ==
  {[failed |-> TRUE], [json |-> [name |-> "tiles"]]}
    \cup {[json |-> [vector_layers |-> l]] : l \in VectorLayerLists}

pushLayersFirst(sources, key, vector_layers) ==
  [sources EXCEPT ![key].layers =
     [i \in 1..Len(vector_layers) |->
        vector_layers[Len(vector_layers) + 1 - i].id] \o @]

\* lines 213-217: the cache with the ids of vector_layers pushed to key's layers
pushLayers(sources, key, vector_layers) ==
  [sources EXCEPT ![key].layers =
     @ \o [i \in 1..Len(vector_layers) |-> vector_layers[i].id]]

\* the .catch handler, lines 224-226: console.error reads the identifier url,
\* which no scope declares, so the handler itself raises a ReferenceError
catchRaises == TRUE

fetchDoneCancelled(st, key, response) ==
  IF "failed" \in DOMAIN response
    THEN [partial |-> [none |-> 0], raised |-> catchRaises]
  ELSE IF "vector_layers" \notin DOMAIN response.json
          \/ key \notin DOMAIN st.mapStyle.sources
    THEN [partial |-> [none |-> 0], raised |-> FALSE]
  ELSE [partial |-> [sources |->
                       pushLayers(st.sources, key, response.json.vector_layers)],
        raised |-> FALSE]

\* the .then chain of one fetch, lines 205-226: the partial state it sets and
\* whether an error is left uncaught
fetchDone(st, key, response) ==
  IF "failed" \in DOMAIN response
    THEN [partial |-> [none |-> 0], raised |-> catchRaises]
  ELSE IF "vector_layers" \notin DOMAIN response.json
    THEN [partial |-> [none |-> 0], raised |-> FALSE]
  ELSE IF key \notin DOMAIN st.sources
    THEN [partial |-> [none |-> 0], raised |-> catchRaises]
  ELSE [partial |-> [sources |->
                       pushLayers(st.sources, key, response.json.vector_layers)],
        raised |-> FALSE]

\* the fetch for key ends with response
fetchEnds(key, response) ==
  LET done == fetchDone(state, key, response)
  IN /\ fetches[key] > 0
     /\ fetches' = [fetches EXCEPT ![key] = @ - 1]
     /\ state' = updated(props, state, done.partial)
     /\ Tick
     /\ last' = Step("onFetchDone", [key |-> key, response |-> response],
                     FALSE, FALSE, <<>>, {}, {}, {}, done.raised)
     /\ UNCHANGED <<props, revisions, currentIdx, fetchCount, glyphLoads,
                    spriteLoads>>

onFetchDone ==
  \E key \in SourceKeys, response \in Responses : fetchEnds(key, response)

\* the callback of updateFonts, lines 97-99
onGlyphsDone ==
  \E url \in glyphLoads :
    /\ glyphLoads' = glyphLoads \ {url}
    /\ state' = updated(props, state,
                  [spec |-> updateRootSpec(state.spec, "glyphs", fontsAt(url))])
    /\ Tick
    /\ last' = Step("onGlyphsDone", url, FALSE, FALSE, <<>>, {}, {}, {}, FALSE)
    /\ UNCHANGED <<props, revisions, currentIdx, fetches, fetchCount, spriteLoads>>

\* the callback of updateIcons, lines 103-105
onSpriteDone ==
  \E url \in spriteLoads :
    /\ spriteLoads' = spriteLoads \ {url}
    /\ state' = updated(props, state,
                  [spec |-> updateRootSpec(state.spec, "sprite", iconsAt(url))])
    /\ Tick
    /\ last' = Step("onSpriteDone", url, FALSE, FALSE, <<>>, {}, {}, {}, FALSE)
    /\ UNCHANGED <<props, revisions, currentIdx, fetches, fetchCount, glyphLoads>>

-----------------------------------------------------------------------------
(* The host renders the component with another mapStyle prop *)

hostSetsStyle ==
  \E s \in HostStyles :
    /\ props' = [props EXCEPT !.mapStyle = withDefaultProps(s)]
    /\ state' = getDerivedStateFromProps(props', state)
    /\ Tick
    /\ last' = Step("hostSetsStyle", s, FALSE, FALSE, <<>>, {}, {}, {}, FALSE)
    /\ UNCHANGED <<revisions, currentIdx, fetches, fetchCount, glyphLoads,
                   spriteLoads>>

-----------------------------------------------------------------------------

Next ==
  \/ onStyleChanged
  \/ onLayersChange
  \/ onLayerChanged
  \/ onLayerIdChange
  \/ onUndo
  \/ onRedo
  \/ onLayerSelect
  \/ changeInspectMode
  \/ onDataChange
  \/ onFetchDone
  \/ onGlyphsDone
  \/ onSpriteDone
  \/ hostSetsStyle

Spec == Init /\ [][Next]_vars

-----------------------------------------------------------------------------
(* Properties *)

\* the step just taken is a run of handler op
Ran(op) == steps' = steps + 1 /\ last'.op = op

\* the sources cache keeps its entries and gains at most entries for sources
\* of the style document style
cacheExtendedFor(style) ==
  /\ \A k \in DOMAIN state.sources :
       k \in DOMAIN state'.sources /\ state'.sources[k] = state.sources[k]
  /\ \A k \in DOMAIN state'.sources :
       k \in DOMAIN state.sources \/ k \in DOMAIN style.sources

\* C1, as stated: an onStyleChanged whose validation returns an error leaves
\* the held style, the revision store and the downloads as they were, calls
\* onSnapshotSave not at all, and writes nothing but the errors list, which
\* becomes the list of the validation messages.
C1_RejectedEditWritesOnlyErrors ==
  [][(Ran("onStyleChanged") /\ ~last'.accepted) =>
       /\ state' = [state EXCEPT !.errors = ErrorMessages(validate(last'.arg))]
       /\ state'.errors # <<>>
       /\ revisions' = revisions /\ currentIdx' = currentIdx
       /\ last'.saved = <<>> /\ props' = props
       /\ last'.fonts = {} /\ last'.icons = {}
       /\ glyphLoads' = glyphLoads /\ spriteLoads' = spriteLoads]_vars

\* C1, amended: as above, except that the fetchSources call that ends the
\* handler may add entries for the held style's sources to the sources cache.
C1_RejectedEditKeepsStyle ==
  [][(Ran("onStyleChanged") /\ ~last'.accepted) =>
       /\ state' = [state EXCEPT
                      !.errors = ErrorMessages(validate(last'.arg)),
                      !.sources = state'.sources]
       /\ state'.errors # <<>>
       /\ state'.mapStyle = state.mapStyle
       /\ cacheExtendedFor(state.mapStyle)
       /\ revisions' = revisions /\ currentIdx' = currentIdx
       /\ last'.saved = <<>> /\ props' = props
       /\ last'.fonts = {} /\ last'.icons = {}
       /\ glyphLoads' = glyphLoads /\ spriteLoads' = spriteLoads]_vars

\* a rejected edit has run, the held style is the one held before, and the
\* handler's fetchSources has filled the sources cache and issued a fetch
C1_Witness ==
  /\ last.op = "onStyleChanged" /\ ~last.accepted
  /\ state.errors # <<>>
  /\ state.mapStyle = last.heldBefore
  /\ DOMAIN state.sources # {}
  /\ last.issued # {}

\* the documents the host itself puts in the mapStyle prop
HostSupplied == HostStyles \cup {withDefaultProps(s) : s \in InitialStyles}

\* C2, as stated: in every reachable state the held style document is a
\* document that passed schema validation, and is not undefined.
C2_HeldStyleValidated ==
  state.mapStyle # Undefined /\ validate(state.mapStyle) = <<>>

\* C2, amended: the held style document is never undefined, and it passes
\* schema validation unless it is a document the host itself supplied as the
\* mapStyle prop (at construction or later), which is held without validation.
C2_HeldStyleValidUnlessFromHost ==
  /\ state.mapStyle # Undefined
  /\ state.mapStyle \in HostSupplied \/ validate(state.mapStyle) = <<>>

\* the latest edit failed validation and the held style is the document of
\* the accepted edit before it
C2_Witness ==
  /\ last.op = "onStyleChanged" /\ ~last.accepted
  /\ Len(revisions) > 0
  /\ state.mapStyle = revisions[Len(revisions)]
  /\ state.mapStyle \notin HostSupplied

\* C3, as stated: whenever the held style has a layer, the selection index is
\* an index of its layer list.
C3_SelectionInBounds ==
  Len(state.mapStyle.layers) > 0 =>
    /\ state.selectedLayerIndex >= 0
    /\ state.selectedLayerIndex < Len(state.mapStyle.layers)

\* C4, as stated: an onUndo run directly after an accepted edit that changed
\* the held style from P to N sets the held style to P and passes P to
\* onSnapshotSave.
C4_UndoRestoresPriorStyle ==
  [][(/\ last.op = "onStyleChanged" /\ last.accepted
      /\ state.mapStyle # last.heldBefore
      /\ Ran("onUndo")) =>
       /\ state'.mapStyle = last.heldBefore
       /\ last'.saved = <<last.heldBefore>>]_vars

\* C5, as stated: once two edits have been accepted, onUndo directly followed
\* by onRedo leaves the held style equal to the one held before the onUndo and
\* the revisions unchanged, and each step calls onSnapshotSave once with the
\* snapshot it restored.
C5_UndoRedoRoundTrip ==
  [][/\ (Len(revisions) >= 2 /\ (Ran("onUndo") \/ Ran("onRedo"))) =>
          /\ revisions' = revisions
          /\ last'.saved = <<current(revisions', currentIdx')>>
     /\ (Len(revisions) >= 2 /\ last.op = "onUndo" /\ Ran("onRedo")) =>
          state'.mapStyle = last.heldBefore]_vars

\* C5, amended: onUndo and onRedo leave the revisions unchanged and call
\* onSnapshotSave once with the snapshot they restored; when the store has a
\* revision before its current one, onUndo directly followed by onRedo
\* leaves the store's position unchanged, and the held style afterwards is
\* the revision that was current before the onUndo if the host feeds
\* snapshots back as the mapStyle prop (so it equals the style held before
\* only if that was the store's current revision), and is otherwise the
\* unchanged prop.
C5_UndoRedoRestoresCurrent ==
  [][/\ (Ran("onUndo") \/ Ran("onRedo")) =>
          /\ revisions' = revisions
          /\ last'.saved = <<current(revisions', currentIdx')>>
     /\ (last.op = "onUndo" /\ last.idxBefore > 0 /\ Ran("onRedo")) =>
          /\ currentIdx' = last.idxBefore
          /\ state'.mapStyle =
               IF props.onSnapshotSave = "feedback"
                 THEN current(revisions, last.idxBefore)
                 ELSE last.heldBefore
          /\ (last.heldBefore = current(revisions, last.idxBefore)
                => state'.mapStyle = last.heldBefore)]_vars

\* onUndo and then onRedo have run after two accepted edits, each step
\* changed the held style, and it is again the store's current revision
C5_Witness ==
  /\ last.op = "onRedo" /\ last.afterUndo
  /\ Len(revisions) >= 2 /\ currentIdx > 0
  /\ state.mapStyle = current(revisions, currentIdx)
  /\ last.heldBefore = current(revisions, currentIdx - 1)
  /\ state.mapStyle # last.heldBefore

\* C6, as stated: a metadata fetch that fails is handled in its own error
\* handler without raising a further error, changes no controller state and
\* issues no further fetch.
C6_FetchFailureIgnored ==
  [][(Ran("onFetchDone") /\ "failed" \in DOMAIN last'.arg.response) =>
       /\ ~last'.raised
       /\ state' = state
       /\ last'.arg.key \in DOMAIN state'.sources
       /\ state'.sources[last'.arg.key].layers = <<>>
       /\ fetchCount' = fetchCount /\ last'.issued = {}]_vars

\* C7: a fetch in flight can end in every state, whatever the held style and
\* the other fetches in flight, and when it ends with a vector_layers list
\* the ids of the list are pushed to the cache entry of its key, also when
\* the held style no longer has the source.
C7_FetchCompletionsNeverCancelled ==
  /\ [](\A key \in SourceKeys : \A response \in Responses :
          (fetches[key] > 0 /\ steps < MaxSteps) =>
             ENABLED fetchEnds(key, response))
  /\ [][(Ran("onFetchDone") /\ "json" \in DOMAIN last'.arg.response
           /\ "vector_layers" \in DOMAIN last'.arg.response.json) =>
          /\ ~last'.raised
          /\ last'.arg.key \in DOMAIN state.sources
          /\ state' = [state EXCEPT !.sources =
               pushLayers(state.sources, last'.arg.key,
                          last'.arg.response.json.vector_layers)]
          /\ state'.sources[last'.arg.key].layers # <<>>]_vars

\* the response of a fetch has been applied for a source that an edit made in
\* between removed from the held style, while a fetch issued later for
\* another source is in flight
C7_Witness ==
  /\ last.op = "onFetchDone"
  /\ last.arg.key \notin DOMAIN state.mapStyle.sources
  /\ state.sources[last.arg.key].layers # <<>>
  /\ \E k \in SourceKeys : k # last.arg.key /\ fetches[k] > 0

\* the response of a fetch has been applied before that of a fetch issued
\* earlier, which is still in flight
C7_WitnessOutOfOrder ==
  /\ last.op = "onFetchDone" /\ last.arg.key = "b"
  /\ state.sources["b"].layers # <<>>
  /\ fetches["a"] > 0

rootValues(fieldName) ==
  IF "values" \in DOMAIN state.spec.root[fieldName]
    THEN state.spec.root[fieldName].values ELSE Undefined

\* C9, as stated: whenever no glyph or sprite metadata download is in flight,
\* the glyphs and sprite value lists of the schema object are the ones
\* downloaded for the held style's glyphs and sprite URLs. (Stated for the
\* states in which both lists have been downloaded; before the first
\* download, as in the initial state, there is no list at all.)
C9_MetadataFollowsHeldStyle ==
  (/\ glyphLoads = {} /\ spriteLoads = {}
   /\ rootValues("glyphs") # Undefined /\ rootValues("sprite") # Undefined) =>
    /\ rootValues("glyphs") =
         fontsAt(glyphUrl(state.mapStyle, state.mapStyle.glyphs))
    /\ rootValues("sprite") = iconsAt(state.mapStyle.sprite)

\* the errors list changes in no handler but onStyleChanged
errorsKept ==
  (steps' = steps + 1 /\ last'.op # "onStyleChanged") =>
     state'.errors = state.errors

\* C10, as stated: an onStyleChanged whose validation returns no error adds
\* one revision equal to newStyle, calls onSnapshotSave once with newStyle if
\* save is true and not at all otherwise, makes newStyle the held style and
\* empties the errors list; a rejected one leaves errors; no other handler
\* changes the errors list.
C10_ValidEditCommitted ==
  [][/\ (Ran("onStyleChanged") /\ last'.accepted) =>
          /\ revisions' = Append(revisions, last'.arg)
          /\ last'.saved = IF last'.save THEN <<last'.arg>> ELSE <<>>
          /\ state'.mapStyle = last'.arg
          /\ state'.errors = <<>>
     /\ (Ran("onStyleChanged") /\ ~last'.accepted) => state'.errors # <<>>
     /\ errorsKept]_vars

\* C10, amended: as above, except that the held style becomes newStyle only
\* if save is true and the host feeds the snapshot back as the mapStyle prop;
\* otherwise the held style stays the host's prop, while the revision is
\* added all the same.
C10_ValidEditCommittedToHost ==
  [][/\ (Ran("onStyleChanged") /\ last'.accepted) =>
          /\ revisions' = Append(revisions, last'.arg)
          /\ last'.saved = IF last'.save THEN <<last'.arg>> ELSE <<>>
          /\ state'.mapStyle =
               IF last'.save /\ props.onSnapshotSave = "feedback"
                 THEN last'.arg ELSE state.mapStyle
          /\ state'.errors = <<>>
     /\ (Ran("onStyleChanged") /\ ~last'.accepted) => state'.errors # <<>>
     /\ errorsKept]_vars

\* a second edit has been accepted, saved and fed back by the host: it is
\* the held style, and the last of two revisions
C10_Witness ==
  /\ last.op = "onStyleChanged" /\ last.accepted /\ last.save
  /\ Len(revisions) = 2 /\ revisions[2] = last.arg
  /\ state.errors = <<>>
  /\ state.mapStyle = last.arg /\ state.mapStyle # last.heldBefore
  /\ last.saved = <<last.arg>>

\* the ids of a vector_layers list, in its order
layerIds(vector_layers) ==
  [i \in 1..Len(vector_layers) |-> vector_layers[i].id]

\* C11: when the fetch for key k ends with a response that has a
\* vector_layers list, the layers of cache entry k are afterwards the ids of
\* the list, in its order and each once, and the type of entry k, the keys of
\* the cache and every other entry are unchanged; when the response has no
\* vector_layers field the cache is unchanged.
C11_VectorLayersDiscovered ==
  [][(Ran("onFetchDone") /\ "json" \in DOMAIN last'.arg.response) =>
       IF "vector_layers" \in DOMAIN last'.arg.response.json
         THEN /\ DOMAIN state'.sources = DOMAIN state.sources
              /\ last'.arg.key \in DOMAIN state'.sources
              /\ state'.sources[last'.arg.key].layers =
                   layerIds(last'.arg.response.json.vector_layers)
              /\ state'.sources[last'.arg.key].type =
                   state.sources[last'.arg.key].type
              /\ \A k \in DOMAIN state.sources \ {last'.arg.key} :
                   state'.sources[k] = state.sources[k]
         ELSE state'.sources = state.sources]_vars

\* a fetch has ended with a vector_layers list of two ids, the cache entry of
\* its key holds the two ids in order, and the cache has another entry
C11_Witness ==
  /\ last.op = "onFetchDone"
  /\ "json" \in DOMAIN last.arg.response
  /\ "vector_layers" \in DOMAIN last.arg.response.json
  /\ Len(last.arg.response.json.vector_layers) = 2
  /\ state.sources[last.arg.key].layers =
       layerIds(last.arg.response.json.vector_layers)
  /\ \E k \in DOMAIN state.sources : k # last.arg.key

\* C12, as stated: after a run of fetchSources (at the end of onStyleChanged
\* or on a map data-change event) and its state update, every source name of
\* the held style has a cache entry with that source's type, created with an
\* empty layers list; and a metadata fetch is issued only for a source that
\* had no cache entry, has type "vector" and has a url.
C12_CacheCoversHeldStyle ==
  [][(Ran("onStyleChanged") \/ Ran("onDataChange")) =>
       /\ \A k \in DOMAIN state'.mapStyle.sources :
            /\ k \in DOMAIN state'.sources
            /\ state'.sources[k].type = state'.mapStyle.sources[k].type
            /\ (k \notin DOMAIN state.sources =>
                  state'.sources[k].layers = <<>>)
       /\ \A k \in last'.issued :
            /\ k \notin DOMAIN state.sources
            /\ \E style \in {state.mapStyle, state'.mapStyle} :
                 /\ k \in DOMAIN style.sources
                 /\ style.sources[k].type = "vector"
                 /\ "url" \in DOMAIN style.sources[k]]_vars

\* style differs from the held style at most in its layer list, which has the
\* held list's length and, at each position, the layer expected there
onlyLayersReplaced(style, expected(_)) ==
  /\ style = [state.mapStyle EXCEPT !.layers = style.layers]
  /\ Len(style.layers) = Len(state.mapStyle.layers)
  /\ \A i \in 1..Len(style.layers) :
       style.layers[i] = expected(state.mapStyle.layers[i])

\* C13: for a held style with distinct layer ids, onLayerChanged(layer)
\* submits to onStyleChanged (with save = true) the held style with the layer
\* whose id is layer.id replaced by layer, and onLayerIdChange(oldId, newId)
\* the held style with the id of the layer whose id is oldId set to newId:
\* same length and order, every other layer and every other field unchanged;
\* when no layer has the id, the submitted layer list is the held one.
\* (Ran("onStyleChanged") holds of every such step: both handlers end in
\* onStyleChanged.)
C13_SingleLayerEdit ==
  [][~HasDuplicateLayerIds(state.mapStyle.layers) =>
       /\ \A layer \in LayerInputs :
            (Ran("onStyleChanged") /\ layerChanged(layer, TRUE)) =>
              LET expected(l) == IF l.id = layer.id THEN layer ELSE l
              IN /\ last'.op = "onStyleChanged" /\ last'.save
                 /\ onlyLayersReplaced(last'.arg, expected)
                 /\ ((\A i \in 1..Len(state.mapStyle.layers) :
                        state.mapStyle.layers[i].id # layer.id)
                      => last'.arg.layers = state.mapStyle.layers)
       /\ \A ids \in LayerIdChanges :
            (Ran("onStyleChanged") /\ layerIdChange(ids[1], ids[2], TRUE)) =>
              LET expected(l) == IF l.id = ids[1]
                                   THEN [l EXCEPT !.id = ids[2]] ELSE l
              IN /\ last'.op = "onStyleChanged" /\ last'.save
                 /\ onlyLayersReplaced(last'.arg, expected)
                 /\ ((\A i \in 1..Len(state.mapStyle.layers) :
                        state.mapStyle.layers[i].id # ids[1])
                      => last'.arg.layers = state.mapStyle.layers)]_vars

\* onLayerChanged has submitted, and onStyleChanged accepted, a style that
\* differs from the style held before in one layer of two
C13_Witness ==
  /\ last.op = "onStyleChanged" /\ last.accepted
  /\ \E layer \in LayerInputs :
       last.arg = changedStyle(last.heldBefore,
                               layerChangedLayers(last.heldBefore, layer))
  /\ Len(last.arg.layers) = 2
  /\ last.arg.layers[1] = last.heldBefore.layers[1]
  /\ last.arg.layers[2] # last.heldBefore.layers[2]

\* onLayerIdChange has submitted a style that differs from the held style in
\* the id of one layer of two, which onStyleChanged rejected for the
\* duplicate id
C13_WitnessIdChange ==
  /\ last.op = "onStyleChanged" /\ ~last.accepted
  /\ last.arg = changedStyle(last.heldBefore,
                   layerIdChangedLayers(last.heldBefore, "l2", "l1"))
  /\ Len(last.arg.layers) = 2
  /\ last.arg.layers[2] = [last.heldBefore.layers[2] EXCEPT !.id = "l1"]
  /\ last.arg.layers[1] = last.heldBefore.layers[1]

\* C14: in every state the held style is the host's mapStyle prop; an
\* accepted edit, an undo or a redo changes the prop, and so the held style,
\* only to the snapshot the host received through onSnapshotSave and fed
\* back, and otherwise leaves both as they were, while an accepted edit is
\* added to the revision store all the same.
C14_HeldStyleFollowsProp ==
  /\ [](state.mapStyle = props.mapStyle)
  /\ [][((Ran("onStyleChanged") /\ last'.accepted)
            \/ Ran("onUndo") \/ Ran("onRedo")) =>
          /\ state'.mapStyle =
               IF props.onSnapshotSave = "feedback" /\ last'.saved # <<>>
                 THEN withDefaultProps(last'.saved[1])
                 ELSE props.mapStyle
          /\ (last'.op = "onStyleChanged" =>
                revisions' = Append(revisions, last'.arg))]_vars

\* an edit has been accepted and passed to onSnapshotSave, the host has not
\* fed it back: the held style is the one held before, and the revision
\* store has the edit
C14_Witness ==
  /\ last.op = "onStyleChanged" /\ last.accepted /\ last.saved = <<last.arg>>
  /\ props.onSnapshotSave = "default"
  /\ state.mapStyle = last.heldBefore /\ state.mapStyle # last.arg
  /\ current(revisions, currentIdx) = last.arg

\* C15: no step removes a key from the sources cache, rewrites the type of
\* an entry, or issues a metadata fetch for a key that has an entry, whatever
\* the held style says about the source by then.
C15_CacheOnlyGrows ==
  [][\A k \in DOMAIN state.sources :
       /\ k \in DOMAIN state'.sources
       /\ state'.sources[k].type = state.sources[k].type
       /\ fetchCount'[k] = fetchCount[k]
       /\ k \notin last'.issued]_vars

\* fetchSources has run on a held style whose source a has another type than
\* the cache entry made for a under an earlier style, and a fetch was issued
\* for a then
C15_Witness ==
  /\ last.op \in {"onDataChange", "onStyleChanged"} /\ ~last.raised
  /\ "a" \in DOMAIN state.mapStyle.sources /\ "a" \in DOMAIN state.sources
  /\ state.mapStyle.sources["a"].type # state.sources["a"].type
  /\ last.heldBefore = state.mapStyle
  /\ fetchCount["a"] = 1

\* the cache keeps the entry of a source that the held style no longer has,
\* after fetchSources has run on that style
C15_WitnessRemoved ==
  /\ last.op = "onDataChange" /\ ~last.raised
  /\ \E k \in DOMAIN state.sources : k \notin DOMAIN state.mapStyle.sources

\* the schema object spec with the value list of field fieldName set
withValues(spec, fieldName, values) ==
  [spec EXCEPT !.root[fieldName] =
     [k \in (DOMAIN spec.root[fieldName]) \cup {"values"} |->
        IF k = "values" THEN values ELSE spec.root[fieldName][k]]]

\* C16: the completion of a glyph metadata download sets the glyphs value
\* list of the schema object and leaves the rest of it, the sprite value
\* list included, as it is; the completion of a sprite metadata download
\* sets the sprite value list and leaves the rest; so with one of each in
\* flight, both lists are there after both completions, in either order.
C16_CompletionsKeepEachOther ==
  [][/\ Ran("onGlyphsDone") =>
          state'.spec = withValues(state.spec, "glyphs", fontsAt(last'.arg))
     /\ Ran("onSpriteDone") =>
          state'.spec = withValues(state.spec, "sprite", iconsAt(last'.arg))
     /\ ((Ran("onGlyphsDone") \/ Ran("onSpriteDone"))
           /\ last.op \in {"onGlyphsDone", "onSpriteDone"}
           /\ last.op # last'.op) =>
          /\ rootValues("glyphs")' # Undefined
          /\ rootValues("sprite")' # Undefined
          /\ state'.spec.root.version = latestSpec.root.version
          /\ state'.spec.layer = latestSpec.layer]_vars

\* a glyph download and a sprite download were in flight together; the
\* sprite download completed first, then the glyph download, and the schema
\* object has the values of both
C16_Witness ==
  /\ last.op = "onGlyphsDone"
  /\ rootValues("glyphs") = fontsAt(last.arg)
  /\ \E url \in {"s1", "s2"} : rootValues("sprite") = iconsAt(url)
  /\ glyphLoads = {} /\ spriteLoads = {}

\* the same with the glyph download completing first
C16_WitnessGlyphsFirst ==
  /\ last.op = "onSpriteDone"
  /\ rootValues("sprite") = iconsAt(last.arg)
  /\ \E t \in {"", DefaultToken, "tokB"}, url \in {"g1", "g2{key}"} :
       rootValues("glyphs") = fontsAt(<<url, t>>)
  /\ glyphLoads = {} /\ spriteLoads = {}

-----------------------------------------------------------------------------
(* The event loop keeps running what is ready: requests in flight end, and *)
(* the map keeps reporting data changes.                                   *)

FairSpec ==
  /\ Spec
  /\ WF_vars(onDataChange)
  /\ WF_vars(onFetchDone)
  /\ WF_vars(onGlyphsDone)
  /\ WF_vars(onSpriteDone)

-----------------------------------------------------------------------------
(* The map keeps reporting data changes for as long as it is shown: after   *)
(* the handler runs explored, data-change events still occur.               *)

LiveNext == Next \/ onDataChangeLater

LiveSpec ==
  /\ Init /\ [][LiveNext]_vars
  /\ WF_vars(onDataChange)
  /\ WF_vars(onDataChangeLater)

\* source k of the held style has type "vector" and a url
vectorWithUrl(k) ==
  /\ k \in DOMAIN state.mapStyle.sources
  /\ state.mapStyle.sources[k].type = "vector"
  /\ "url" \in DOMAIN state.mapStyle.sources[k]

\* C17, as stated: when the held style has a source of type "vector" with a
\* url under a key that has no cache entry, a metadata fetch for the key is
\* eventually issued (or the held style ceases to have the source as a vector
\* source with a url), given that map data-change events keep occurring.
C17_VectorSourcesEventuallyFetched ==
  \A k \in SourceKeys :
    (vectorWithUrl(k) /\ k \notin DOMAIN state.sources)
      ~> (fetchCount[k] > 0 \/ ~vectorWithUrl(k))

\* the step leaves the held style as it is and defined, and passes no
\* undefined snapshot to onSnapshotSave
harmless ==
  /\ state'.mapStyle = state.mapStyle
  /\ state'.mapStyle # Undefined
  /\ \A i \in 1..Len(last'.saved) : last'.saved[i] # Undefined

\* C18, as stated: onUndo when the store has no earlier revision (also when
\* it is empty) and onRedo when it has no later revision leave the held
\* style unchanged and defined, and pass no undefined snapshot to
\* onSnapshotSave.
C18_UndoRedoAtEndsHarmless ==
  [][/\ (Ran("onUndo") /\ currentIdx <= 0) => harmless
     /\ (Ran("onRedo") /\ currentIdx >= Len(revisions) - 1) => harmless]_vars

\* C19, as stated: when the host supplies no transformRequest, a run of
\* fetchSources (on a map data-change event or at the end of onStyleChanged)
\* raises no error, and on a data-change event it issues the metadata fetch
\* for every vector source with a url of the held style that has no cache
\* entry, and records the entry.
C19_DefaultTransformRequest ==
  [][(props.transformRequest = "default"
       /\ (Ran("onDataChange") \/ Ran("onStyleChanged"))) =>
       /\ ~last'.raised
       /\ (last'.op = "onDataChange" =>
             \A k \in SourceKeys :
               (vectorWithUrl(k) /\ k \notin DOMAIN state.sources) =>
                 /\ k \in last'.issued
                 /\ k \in DOMAIN state'.sources)]_vars

====
